---- MODULE Spec2Model ----
(***************************************************************************)
(* Password-reset token lifecycle of UserAuth-API.                         *)
(*                                                                         *)
(* The model follows services/password_reset_service.py statement by       *)
(* statement: every SQL statement the service hands to the database is one *)
(* atomic step, and the steps of concurrent requests interleave freely,    *)
(* because the service wraps no two statements in a transaction.  Every    *)
(* statement may raise (the service catches the exception), and the mailer *)
(* may report failure.                                                     *)
(*                                                                         *)
(* The clock counts whole hours, the unit of token_expiry_hours.  The      *)
(* table outlives the service object, so a run starts from an empty table  *)
(* or from one that holds a token issued within the last hour.             *)
(***************************************************************************)
EXTENDS Naturals, Sequences, FiniteSets, TLC

VARIABLES
    now,        \* datetime.utcnow(), in hours
    rows,       \* table password_reset_tokens
    password,   \* column users.password, by user id
    outbox,     \* the mail email_service delivered for each handler's request
    pc,         \* each request handler's position
    op,         \* the service method the handler runs
    email,      \* argument email of request_password_reset
    tok,        \* the generated token, or the argument token
    pw,         \* argument new_password of reset_password
    user,       \* local user (its id) of the running method
    exp,        \* local expires_at of _store_reset_token
    current_time, \* local current_time of cleanup_expired_tokens
    count,      \* local count of cleanup_expired_tokens
    result,     \* the value the method returned
    calls,      \* service calls entered so far
    deleted     \* history: the rows the DELETE of a running _store_reset_token removed

vars == <<now, rows, password, outbox, pc, op, email, tok, pw, user, exp,
          current_time, count, result, calls, deleted>>

----------------------------------------------------------------------------
(* Bounds of the model *)

MaxTime == 2

MaxCalls == 2

Procs == {"p1", "p2"}

Tokens == {"tokA", "tokB"}

Passwords == {"1234567", "12345678"}

(* Program constants *)

TokenExpiryHours == 1

MinPasswordLength == 8

None == "none"

Users == {"u1", "u2"}

EmailOf(u) == IF u = "u1" THEN "john@example.com" ELSE "jane@example.com"

Emails == {EmailOf(u) : u \in Users} \cup {"nobody@example.com"}

\* What a request body can carry in a field: a value, an empty or blank string
\* (a missing key reads as the empty string), or null.
RawEmails == Emails \cup {"", " ", None}

RawTokens == Tokens \cup {"", " ", None}

RawPasswords == Passwords \cup {"", None}

\* str.strip()
strip(s) == IF s = " " THEN "" ELSE s

\* The inputs of a request: the fields of its body, the token the generator
\* draws and whether the database carries the first statement out.  A body the
\* route rejects reaches neither the generator nor the database.
RequestInputs ==
    (Emails \X Tokens \X BOOLEAN)
    \cup ((RawEmails \ Emails) \X {CHOOSE t \in Tokens : TRUE} \X {TRUE})

ResetInputs ==
    (Tokens \X Passwords \X BOOLEAN)
    \cup ((RawTokens \ Tokens) \X {CHOOSE w \in Passwords : TRUE} \X {TRUE})
    \cup ({CHOOSE t \in Tokens : TRUE} \X (RawPasswords \ Passwords) \X {TRUE})

ValidateInputs ==
    (Tokens \X BOOLEAN) \cup ((RawTokens \ Tokens) \X {TRUE})

----------------------------------------------------------------------------
(* Returned dicts *)

Success(message) == [success |-> TRUE, text |-> message]

Error(message) == [success |-> FALSE, text |-> message]

GenericMessage == "If the email exists in our system, you will receive a password reset link."

ResetDone == "Password has been reset successfully"

InvalidToken == "Invalid or expired reset token"

TooShort == "Password must be at least 8 characters long"

Valid(mail) == [valid |-> TRUE, email |-> mail]

Invalid == [valid |-> FALSE, email |-> None]

Removed(n) == [removed |-> n]

InternalError == "Internal server error"

\* routes/auth.py, request_password_reset: the response made from the service's dict.
RequestResetResponse(res) ==
    IF res.success
    THEN [code |-> 200, status |-> "success", body |-> res.text]
    ELSE [code |-> 500, status |-> "error", body |-> res.text]

\* routes/auth.py, reset_password: the response made from the service's dict.
ResetPasswordResponse(res) ==
    IF res.success
    THEN [code |-> 200, status |-> "success", body |-> res.text]
    ELSE [code |-> 400, status |-> "error", body |-> res.text]

NoResult == [success |-> FALSE, text |-> None]

\* A response the route makes without calling the service.
Rejected(code, message) == [success |-> FALSE, text |-> message, code |-> code]

Mail(to, body) == [to |-> to, token |-> body]

Confirmation == "confirmation"

NoMail == Mail(None, None)

----------------------------------------------------------------------------
(* Pure helpers *)

find_by_email(e) ==
    IF \E u \in Users : EmailOf(u) = e
    THEN CHOOSE u \in Users : EmailOf(u) = e
    ELSE None

\* Line 39 with the check dropped.
UserMissingNever(u) == FALSE

\* Line 39: if not user or not user.id
UserMissing(u) == u = None

generate_password_hash(w) == <<"pbkdf2:sha256", w>>

\* Line 191 with >= in place of >.
ExpiredInclusive(t, expires_at) == t >= expires_at

\* Line 191: datetime.utcnow() > expires_at
Expired(t, expires_at) == t > expires_at

Row(u, t, e, used) == [user_id |-> u, token |-> t, expires_at |-> e, used |-> used]

\* SELECT ... FROM password_reset_tokens prt JOIN users u ... WHERE prt.token = ?
SelectToken(t) == {r \in rows : r.token = t /\ r.user_id \in Users}

\* _validate_reset_token without the check of the used flag (lines 185-187).
_validate_reset_token_ignoring_used(t, dbOk) ==
    IF ~dbOk THEN None
    ELSE IF SelectToken(t) = {} THEN None
    ELSE LET r == CHOOSE r \in SelectToken(t) : TRUE IN
         IF Expired(now, r.expires_at) THEN None
         ELSE r.user_id

\* Lines 170-204; an exception of the query gives None.
_validate_reset_token(t, dbOk) ==
    IF ~dbOk THEN None
    ELSE IF SelectToken(t) = {} THEN None
    ELSE LET r == CHOOSE r \in SelectToken(t) : TRUE IN
         IF r.used THEN None
         ELSE IF Expired(now, r.expires_at) THEN None
         ELSE r.user_id

\* The table as the service finds it: empty, or holding one token issued to a
\* user within the last hour.
InitialStores ==
    {{}} \cup {{Row("u1", "tokA", e, FALSE)} : e \in 0..TokenExpiryHours}

----------------------------------------------------------------------------
Init ==
    /\ now = 0
    /\ rows \in InitialStores
    /\ password = [u \in Users |-> generate_password_hash("initialpassword")]
    /\ outbox = [p \in Procs |-> NoMail]
    /\ pc = [p \in Procs |-> "idle"]
    /\ op = [p \in Procs |-> None]
    /\ email = [p \in Procs |-> None]
    /\ tok = [p \in Procs |-> None]
    /\ pw = [p \in Procs |-> None]
    /\ user = [p \in Procs |-> None]
    /\ exp = [p \in Procs |-> 0]
    /\ current_time = [p \in Procs |-> 0]
    /\ count = [p \in Procs |-> 0]
    /\ result = [p \in Procs |-> NoResult]
    /\ calls = 0
    /\ deleted = [p \in Procs |-> {}]

Free(p) == pc[p] \in {"idle", "done"}

\* The handler of p returns res.
Return(p, res) ==
    /\ pc' = [pc EXCEPT ![p] = "done"]
    /\ result' = [result EXCEPT ![p] = res]
    /\ user' = [user EXCEPT ![p] = None]
    /\ exp' = [exp EXCEPT ![p] = 0]
    /\ current_time' = [current_time EXCEPT ![p] = 0]
    /\ count' = [count EXCEPT ![p] = 0]
    /\ deleted' = [deleted EXCEPT ![p] = {}]

\* The handler of p starts method m with these arguments.
Enter(p, m, e, t, w) ==
    /\ calls < MaxCalls
    /\ calls' = calls + 1
    /\ outbox' = [outbox EXCEPT ![p] = NoMail]
    /\ op' = [op EXCEPT ![p] = m]
    /\ email' = [email EXCEPT ![p] = e]
    /\ tok' = [tok EXCEPT ![p] = t]
    /\ pw' = [pw EXCEPT ![p] = w]

Tick ==
    /\ now < MaxTime
    /\ now' = now + 1
    /\ UNCHANGED <<rows, password, outbox, pc, op, email, tok, pw, user, exp,
                 current_time, count, result, calls, deleted>>

----------------------------------------------------------------------------
(* request_password_reset *)

\* Lines 36-48 and 149: look the user up, generate the token, compute expires_at.
RequestPasswordReset(p, e, t, dbOk) ==
    /\ Free(p)
    /\ UNCHANGED <<now, rows, password>>
    /\ IF ~dbOk
       THEN /\ Enter(p, "request_password_reset", e, None, None)
            /\ Return(p, Error(InternalError))
       ELSE IF UserMissing(find_by_email(e))
       THEN /\ Enter(p, "request_password_reset", e, None, None)
            /\ Return(p, Success(GenericMessage))
       ELSE /\ Enter(p, "request_password_reset", e, t, None)
            /\ pc' = [pc EXCEPT ![p] = "store_delete"]
            /\ user' = [user EXCEPT ![p] = find_by_email(e)]
            /\ exp' = [exp EXCEPT ![p] = now + TokenExpiryHours]
            /\ result' = [result EXCEPT ![p] = NoResult]
            /\ UNCHANGED <<current_time, count, deleted>>

\* Lines 151-155 with a DELETE that removes nothing.
StoreDeleteNothing(p, dbOk) ==
    /\ pc[p] = "store_delete"
    /\ UNCHANGED <<now, password, outbox, op, email, tok, pw, calls>>
    /\ IF dbOk
       THEN /\ rows' = rows
            /\ deleted' = [deleted EXCEPT ![p] = {}]
            /\ pc' = [pc EXCEPT ![p] = "store_insert"]
            /\ UNCHANGED <<user, exp, current_time, count, result>>
       ELSE /\ rows' = rows
            /\ Return(p, Error("Failed to process password reset request"))

\* Lines 151-155: DELETE FROM password_reset_tokens WHERE user_id = ?
StoreDelete(p, dbOk) ==
    /\ pc[p] = "store_delete"
    /\ UNCHANGED <<now, password, outbox, op, email, tok, pw, calls>>
    /\ IF dbOk
       THEN /\ rows' = {r \in rows : r.user_id # user[p]}
            /\ deleted' = [deleted EXCEPT ![p] = {r \in rows : r.user_id = user[p]}]
            /\ pc' = [pc EXCEPT ![p] = "store_insert"]
            /\ UNCHANGED <<user, exp, current_time, count, result>>
       ELSE /\ rows' = rows
            /\ Return(p, Error("Failed to process password reset request"))

\* Lines 51-56 and 157-168 with the result of _store_reset_token ignored: the
\* mail is sent whether or not the INSERT was carried out.
StoreInsertIgnoringFailure(p, dbOk) ==
    /\ pc[p] = "store_insert"
    /\ UNCHANGED <<now, password, outbox, op, email, tok, pw, calls>>
    /\ rows' = IF dbOk /\ ~\E r \in rows : r.token = tok[p]
               THEN rows \cup {Row(user[p], tok[p], exp[p], FALSE)}
               ELSE rows
    /\ pc' = [pc EXCEPT ![p] = "send_email"]
    /\ deleted' = [deleted EXCEPT ![p] = {}]
    /\ UNCHANGED <<user, exp, current_time, count, result>>

\* Lines 157-168 on a table whose token column is not UNIQUE.
StoreInsertNoUnique(p, dbOk) ==
    /\ pc[p] = "store_insert"
    /\ UNCHANGED <<now, password, outbox, op, email, tok, pw, calls>>
    /\ IF dbOk
       THEN /\ rows' = rows \cup {Row(user[p], tok[p], exp[p], FALSE)}
            /\ pc' = [pc EXCEPT ![p] = "send_email"]
            /\ deleted' = [deleted EXCEPT ![p] = {}]
            /\ UNCHANGED <<user, exp, current_time, count, result>>
       ELSE /\ rows' = rows
            /\ Return(p, Error("Failed to process password reset request"))

\* Lines 157-168: INSERT INTO password_reset_tokens; token is UNIQUE.
StoreInsert(p, dbOk) ==
    /\ pc[p] = "store_insert"
    /\ UNCHANGED <<now, password, outbox, op, email, tok, pw, calls>>
    /\ IF dbOk /\ ~\E r \in rows : r.token = tok[p]
       THEN /\ rows' = rows \cup {Row(user[p], tok[p], exp[p], FALSE)}
            /\ pc' = [pc EXCEPT ![p] = "send_email"]
            /\ deleted' = [deleted EXCEPT ![p] = {}]
            /\ UNCHANGED <<user, exp, current_time, count, result>>
       ELSE /\ rows' = rows
            /\ Return(p, Error("Failed to process password reset request"))

\* Lines 55-64 with a message of its own for the user-found branch.
SendResetEmailRevealing(p, sent) ==
    /\ pc[p] = "send_email"
    /\ UNCHANGED <<now, rows, password, op, email, tok, pw, calls>>
    /\ IF sent
       THEN /\ outbox' = [outbox EXCEPT ![p] = Mail(email[p], tok[p])]
            /\ Return(p, Success("Password reset link sent"))
       ELSE /\ outbox' = outbox
            /\ Return(p, Error("Failed to send password reset email"))

\* Lines 55-64 with the issued token deleted again when the mail fails.
SendResetEmailRollingBack(p, sent) ==
    /\ pc[p] = "send_email"
    /\ UNCHANGED <<now, password, op, email, tok, pw, calls>>
    /\ IF sent
       THEN /\ outbox' = [outbox EXCEPT ![p] = Mail(email[p], tok[p])]
            /\ rows' = rows
            /\ Return(p, Success(GenericMessage))
       ELSE /\ outbox' = outbox
            /\ rows' = {r \in rows : r.token # tok[p]}
            /\ Return(p, Error("Failed to send password reset email"))

\* Lines 55-64: email_service.send_password_reset_email
SendResetEmail(p, sent) ==
    /\ pc[p] = "send_email"
    /\ UNCHANGED <<now, rows, password, op, email, tok, pw, calls>>
    /\ IF sent
       THEN /\ outbox' = [outbox EXCEPT ![p] = Mail(email[p], tok[p])]
            /\ Return(p, Success(GenericMessage))
       ELSE /\ outbox' = outbox
            /\ Return(p, Error("Failed to send password reset email"))

----------------------------------------------------------------------------
(* reset_password *)

\* Lines 81-91 with a message of its own for a token past its expiry.
ResetPasswordTellingExpiry(p, t, w, dbOk) ==
    /\ Free(p)
    /\ UNCHANGED <<now, rows, password>>
    /\ Enter(p, "reset_password", None, t, w)
    /\ IF UserMissing(_validate_reset_token(t, dbOk))
       THEN IF \E r \in SelectToken(t) : Expired(now, r.expires_at)
            THEN Return(p, Error("Reset token has expired"))
            ELSE Return(p, Error(InvalidToken))
       ELSE IF Len(w) < MinPasswordLength
       THEN Return(p, Error(TooShort))
       ELSE /\ pc' = [pc EXCEPT ![p] = "update_password"]
            /\ user' = [user EXCEPT ![p] = _validate_reset_token(t, dbOk)]
            /\ result' = [result EXCEPT ![p] = NoResult]
            /\ UNCHANGED <<exp, current_time, count, deleted>>

\* Lines 81-91 with the row of a token that fails validation deleted.
ResetPasswordDroppingInvalid(p, t, w, dbOk) ==
    /\ Free(p)
    /\ UNCHANGED <<now, password>>
    /\ Enter(p, "reset_password", None, t, w)
    /\ IF UserMissing(_validate_reset_token(t, dbOk))
       THEN /\ rows' = {r \in rows : r.token # t}
            /\ Return(p, Error(InvalidToken))
       ELSE /\ rows' = rows
            /\ IF Len(w) < MinPasswordLength
               THEN Return(p, Error(TooShort))
               ELSE /\ pc' = [pc EXCEPT ![p] = "update_password"]
                    /\ user' = [user EXCEPT ![p] = _validate_reset_token(t, dbOk)]
                    /\ result' = [result EXCEPT ![p] = NoResult]
                    /\ UNCHANGED <<exp, current_time, count, deleted>>

\* Lines 81-91: validate the token, then the length of the new password.
ResetPassword(p, t, w, dbOk) ==
    /\ Free(p)
    /\ UNCHANGED <<now, rows, password>>
    /\ Enter(p, "reset_password", None, t, w)
    /\ IF UserMissing(_validate_reset_token(t, dbOk))
       THEN Return(p, Error(InvalidToken))
       ELSE IF Len(w) < MinPasswordLength
       THEN Return(p, Error(TooShort))
       ELSE /\ pc' = [pc EXCEPT ![p] = "update_password"]
            /\ user' = [user EXCEPT ![p] = _validate_reset_token(t, dbOk)]
            /\ result' = [result EXCEPT ![p] = NoResult]
            /\ UNCHANGED <<exp, current_time, count, deleted>>

\* Lines 93-97 with the token marked used when the update fails.
UpdateUserPasswordBurningToken(p, dbOk) ==
    /\ pc[p] = "update_password"
    /\ UNCHANGED <<now, outbox, op, email, tok, pw, calls>>
    /\ IF dbOk
       THEN /\ password' = [password EXCEPT ![user[p]] = generate_password_hash(pw[p])]
            /\ rows' = rows
            /\ pc' = [pc EXCEPT ![p] = "mark_used"]
            /\ UNCHANGED <<user, exp, current_time, count, result, deleted>>
       ELSE /\ password' = password
            /\ rows' = {IF r.token = tok[p] THEN [r EXCEPT !.used = TRUE] ELSE r : r \in rows}
            /\ Return(p, Error("Failed to update password"))

\* Lines 93-97 with an UPDATE users that has no WHERE clause.
UpdateUserPasswordOfEveryone(p, dbOk) ==
    /\ pc[p] = "update_password"
    /\ UNCHANGED <<now, rows, outbox, op, email, tok, pw, calls>>
    /\ IF dbOk
       THEN /\ password' = [u \in Users |-> generate_password_hash(pw[p])]
            /\ pc' = [pc EXCEPT ![p] = "mark_used"]
            /\ UNCHANGED <<user, exp, current_time, count, result, deleted>>
       ELSE /\ password' = password
            /\ Return(p, Error("Failed to update password"))

\* Lines 93-97 and 206-215: UPDATE users SET password = ? WHERE id = ?
UpdateUserPassword(p, dbOk) ==
    /\ pc[p] = "update_password"
    /\ UNCHANGED <<now, rows, outbox, op, email, tok, pw, calls>>
    /\ IF dbOk
       THEN /\ password' = [password EXCEPT ![user[p]] = generate_password_hash(pw[p])]
            /\ pc' = [pc EXCEPT ![p] = "mark_used"]
            /\ UNCHANGED <<user, exp, current_time, count, result, deleted>>
       ELSE /\ password' = password
            /\ Return(p, Error("Failed to update password"))

\* Lines 217-226 with an UPDATE that flips the flag instead of setting it.
_mark_token_as_used_toggling(store, t, dbOk) ==
    [ok |-> dbOk,
     rows |-> IF dbOk
              THEN {IF r.token = t THEN [r EXCEPT !.used = ~r.used] ELSE r : r \in store}
              ELSE store]

\* Lines 217-226: UPDATE password_reset_tokens SET used = ? WHERE token = ?
\* on the table store; ok is the returned bool.
_mark_token_as_used(store, t, dbOk) ==
    [ok |-> dbOk,
     rows |-> IF dbOk
              THEN {IF r.token = t THEN [r EXCEPT !.used = TRUE] ELSE r : r \in store}
              ELSE store]

\* Lines 99-100: self._mark_token_as_used(token); the returned bool is dropped.
MarkTokenAsUsed(p, dbOk) ==
    /\ pc[p] = "mark_used"
    /\ UNCHANGED <<now, password, outbox, op, email, tok, pw, user, exp,
                 current_time, count, result, calls, deleted>>
    /\ rows' = _mark_token_as_used(rows, tok[p], dbOk).rows
    /\ pc' = [pc EXCEPT ![p] = "send_confirmation"]

\* Lines 102-109 with the reset undone and an error returned when the
\* confirmation mail fails.
SendConfirmationStrict(p, sent) ==
    /\ pc[p] = "send_confirmation"
    /\ UNCHANGED <<now, password, op, email, tok, pw, calls>>
    /\ IF sent
       THEN /\ outbox' = [outbox EXCEPT ![p] = Mail(EmailOf(user[p]), Confirmation)]
            /\ rows' = rows
            /\ Return(p, Success(ResetDone))
       ELSE /\ outbox' = outbox
            /\ rows' = {IF r.token = tok[p] THEN [r EXCEPT !.used = FALSE] ELSE r : r \in rows}
            /\ Return(p, Error("Failed to send confirmation email"))

\* Lines 102-109: send_password_reset_confirmation, its bool dropped.
SendConfirmation(p, sent) ==
    /\ pc[p] = "send_confirmation"
    /\ UNCHANGED <<now, rows, password, op, email, tok, pw, calls>>
    /\ outbox' = IF sent
                 THEN [outbox EXCEPT ![p] = Mail(EmailOf(user[p]), Confirmation)]
                 ELSE outbox
    /\ Return(p, Success(ResetDone))

----------------------------------------------------------------------------
(* validate_reset_token *)

\* Lines 115-136 with the token marked used by a successful validation.
ValidateResetTokenConsuming(p, t, dbOk) ==
    /\ Free(p)
    /\ UNCHANGED <<now, password>>
    /\ Enter(p, "validate_reset_token", None, t, None)
    /\ IF _validate_reset_token(t, dbOk) # None
       THEN /\ rows' = {IF r.token = t THEN [r EXCEPT !.used = TRUE] ELSE r : r \in rows}
            /\ Return(p, Valid(EmailOf(_validate_reset_token(t, dbOk))))
       ELSE /\ rows' = rows
            /\ Return(p, Invalid)

\* Lines 115-136: one SELECT, then the dict made from its answer.
ValidateResetToken(p, t, dbOk) ==
    /\ Free(p)
    /\ UNCHANGED <<now, rows, password>>
    /\ Enter(p, "validate_reset_token", None, t, None)
    /\ IF _validate_reset_token(t, dbOk) # None
       THEN Return(p, Valid(EmailOf(_validate_reset_token(t, dbOk))))
       ELSE Return(p, Invalid)

----------------------------------------------------------------------------
(* cleanup_expired_tokens *)

\* The WHERE clause of lines 238 and 246 without its test of the used flag.
PurgeableExpiredOnly(r, t) == r.expires_at < t

\* The WHERE clause of lines 238 and 246 without its test of expires_at.
PurgeableUsedOnly(r, t) == r.used

\* The WHERE clause of lines 238 and 246 with <= in place of <.
PurgeableInclusive(r, t) == r.expires_at <= t \/ r.used

\* The WHERE clause of lines 238 and 246: expires_at < ? OR used = ?
Purgeable(r, t) == r.expires_at < t \/ r.used

\* Lines 233-242: read the clock, SELECT COUNT(*) ... WHERE expires_at < ? OR used = ?
CleanupExpiredTokens(p, dbOk) ==
    /\ Free(p)
    /\ UNCHANGED <<now, rows, password>>
    /\ Enter(p, "cleanup_expired_tokens", None, None, None)
    /\ IF dbOk
       THEN /\ pc' = [pc EXCEPT ![p] = "cleanup_delete"]
            /\ current_time' = [current_time EXCEPT ![p] = now]
            /\ count' = [count EXCEPT ![p] = Cardinality({r \in rows : Purgeable(r, now)})]
            /\ result' = [result EXCEPT ![p] = NoResult]
            /\ UNCHANGED <<user, exp, deleted>>
       ELSE Return(p, Removed(0))

\* Lines 244-253: DELETE FROM password_reset_tokens WHERE expires_at < ? OR used = ?
CleanupDelete(p, dbOk) ==
    /\ pc[p] = "cleanup_delete"
    /\ UNCHANGED <<now, password, outbox, op, email, tok, pw, calls>>
    /\ IF dbOk
       THEN /\ rows' = {r \in rows : ~Purgeable(r, current_time[p])}
            /\ Return(p, Removed(count[p]))
       ELSE /\ rows' = rows
            /\ Return(p, Removed(0))

----------------------------------------------------------------------------
(* routes/auth.py: the checks of the request body before the service call *)

\* The route answers by itself; no service method is entered.
Reject(p, code, message) ==
    /\ Free(p)
    /\ UNCHANGED <<now, rows, password>>
    /\ Enter(p, None, None, None, None)
    /\ Return(p, Rejected(code, message))

\* Lines 157-172 without the check of new_password.
ResetPasswordRouteUnchecked(p, t, w, dbOk) ==
    IF t = None THEN Reject(p, 500, InternalError)
    ELSE IF strip(t) = "" THEN Reject(p, 400, "Reset token is required")
    ELSE ResetPassword(p, strip(t), IF w = None THEN "" ELSE w, dbOk)

\* Lines 109-127; null.strip() raises and the route's except answers 500.
RequestPasswordResetRoute(p, e, t, dbOk) ==
    IF e = None THEN Reject(p, 500, InternalError)
    ELSE IF strip(e) = "" THEN Reject(p, 400, "Email is required")
    ELSE RequestPasswordReset(p, strip(e), t, dbOk)

\* Lines 157-172.
ResetPasswordRoute(p, t, w, dbOk) ==
    IF t = None THEN Reject(p, 500, InternalError)
    ELSE IF strip(t) = "" THEN Reject(p, 400, "Reset token is required")
    ELSE IF w = None \/ w = "" THEN Reject(p, 400, "New password is required")
    ELSE ResetPassword(p, strip(t), w, dbOk)

\* Lines 200-222; the route's except answers null.strip() with valid: False.
ValidateResetTokenRoute(p, t, dbOk) ==
    IF t = None THEN Reject(p, 200, "valid: False")
    ELSE IF strip(t) = "" THEN Reject(p, 400, "Reset token is required")
    ELSE ValidateResetToken(p, strip(t), dbOk)

----------------------------------------------------------------------------
Next ==
    \/ Tick
    \/ \E p \in Procs, i \in RequestInputs : RequestPasswordResetRoute(p, i[1], i[2], i[3])
    \/ \E p \in Procs, dbOk \in BOOLEAN : StoreDelete(p, dbOk)
    \/ \E p \in Procs, dbOk \in BOOLEAN : StoreInsert(p, dbOk)
    \/ \E p \in Procs, sent \in BOOLEAN : SendResetEmail(p, sent)
    \/ \E p \in Procs, i \in ResetInputs : ResetPasswordRoute(p, i[1], i[2], i[3])
    \/ \E p \in Procs, dbOk \in BOOLEAN : UpdateUserPassword(p, dbOk)
    \/ \E p \in Procs, dbOk \in BOOLEAN : MarkTokenAsUsed(p, dbOk)
    \/ \E p \in Procs, sent \in BOOLEAN : SendConfirmation(p, sent)
    \/ \E p \in Procs, i \in ValidateInputs : ValidateResetTokenRoute(p, i[1], i[2])
    \/ \E p \in Procs, dbOk \in BOOLEAN : CleanupExpiredTokens(p, dbOk)
    \/ \E p \in Procs, dbOk \in BOOLEAN : CleanupDelete(p, dbOk)

Spec == Init /\ [][Next]_vars

----------------------------------------------------------------------------
(* The service with one request at a time: a single worker runs each method  *)
(* from its first statement to its return before it takes the next request.  *)
(* The table it starts from is any the earlier requests can have left: rows  *)
(* with distinct tokens, used or not, issued within the last hour.           *)

SerialStores ==
    {S \in SUBSET {Row(u, t, e, used) : u \in Users, t \in Tokens,
                                        e \in 0..TokenExpiryHours, used \in BOOLEAN} :
        \A r1, r2 \in S : r1.token = r2.token => r1 = r2}

SerialInit ==
    /\ now = 0
    /\ rows \in SerialStores
    /\ password = [u \in Users |-> generate_password_hash("initialpassword")]
    /\ outbox = [p \in Procs |-> NoMail]
    /\ pc = [p \in Procs |-> "idle"]
    /\ op = [p \in Procs |-> None]
    /\ email = [p \in Procs |-> None]
    /\ tok = [p \in Procs |-> None]
    /\ pw = [p \in Procs |-> None]
    /\ user = [p \in Procs |-> None]
    /\ exp = [p \in Procs |-> 0]
    /\ current_time = [p \in Procs |-> 0]
    /\ count = [p \in Procs |-> 0]
    /\ result = [p \in Procs |-> NoResult]
    /\ calls = 0
    /\ deleted = [p \in Procs |-> {}]

Worker == CHOOSE p \in Procs : TRUE

SerialNext ==
    \/ Tick
    \/ \E i \in RequestInputs : RequestPasswordResetRoute(Worker, i[1], i[2], i[3])
    \/ \E dbOk \in BOOLEAN : StoreDelete(Worker, dbOk)
    \/ \E dbOk \in BOOLEAN : StoreInsert(Worker, dbOk)
    \/ \E sent \in BOOLEAN : SendResetEmail(Worker, sent)
    \/ \E i \in ResetInputs : ResetPasswordRoute(Worker, i[1], i[2], i[3])
    \/ \E dbOk \in BOOLEAN : UpdateUserPassword(Worker, dbOk)
    \/ \E dbOk \in BOOLEAN : MarkTokenAsUsed(Worker, dbOk)
    \/ \E sent \in BOOLEAN : SendConfirmation(Worker, sent)
    \/ \E i \in ValidateInputs : ValidateResetTokenRoute(Worker, i[1], i[2])
    \/ \E dbOk \in BOOLEAN : CleanupExpiredTokens(Worker, dbOk)
    \/ \E dbOk \in BOOLEAN : CleanupDelete(Worker, dbOk)

SerialSpec == SerialInit /\ [][SerialNext]_vars

----------------------------------------------------------------------------
(* The service with a sweeper: one handler calls cleanup_expired_tokens again *)
(* and again, as the scheduler of the deployment does, while the other        *)
(* handlers serve requests.  The clock of the model stops at MaxTime, so a    *)
(* reset is requested only while the expiry of its token lies before that.    *)

Sweeper == CHOOSE p \in Procs : TRUE

\* Lines 233-242, called by the scheduler: the sweeper's calls are not counted.
ScheduledCleanup(dbOk) ==
    /\ Free(Sweeper)
    /\ UNCHANGED <<now, rows, password, outbox, email, tok, pw, calls>>
    /\ op' = [op EXCEPT ![Sweeper] = "cleanup_expired_tokens"]
    /\ IF dbOk
       THEN /\ pc' = [pc EXCEPT ![Sweeper] = "cleanup_delete"]
            /\ current_time' = [current_time EXCEPT ![Sweeper] = now]
            /\ count' = [count EXCEPT ![Sweeper] =
                              Cardinality({r \in rows : Purgeable(r, now)})]
            /\ result' = [result EXCEPT ![Sweeper] = NoResult]
            /\ UNCHANGED <<user, exp, deleted>>
       ELSE Return(Sweeper, Removed(0))

SweeperNext ==
    \/ Tick
    \/ \E dbOk \in BOOLEAN : ScheduledCleanup(dbOk)
    \/ \E p \in Procs, dbOk \in BOOLEAN : CleanupDelete(p, dbOk)
    \/ \E p \in Procs \ {Sweeper}, i \in RequestInputs :
          /\ now + TokenExpiryHours < MaxTime
          /\ RequestPasswordResetRoute(p, i[1], i[2], i[3])
    \/ \E p \in Procs, dbOk \in BOOLEAN : StoreDelete(p, dbOk)
    \/ \E p \in Procs, dbOk \in BOOLEAN : StoreInsert(p, dbOk)
    \/ \E p \in Procs, sent \in BOOLEAN : SendResetEmail(p, sent)
    \/ \E p \in Procs \ {Sweeper}, i \in ResetInputs :
          ResetPasswordRoute(p, i[1], i[2], i[3])
    \/ \E p \in Procs, dbOk \in BOOLEAN : UpdateUserPassword(p, dbOk)
    \/ \E p \in Procs, dbOk \in BOOLEAN : MarkTokenAsUsed(p, dbOk)
    \/ \E p \in Procs, sent \in BOOLEAN : SendConfirmation(p, sent)
    \/ \E p \in Procs \ {Sweeper}, i \in ValidateInputs :
          ValidateResetTokenRoute(p, i[1], i[2])
    \/ \E p \in Procs \ {Sweeper}, dbOk \in BOOLEAN : CleanupExpiredTokens(p, dbOk)

\* The clock keeps advancing, and the sweeper keeps running: again and again a
\* sweep's SELECT and its DELETE are carried out.
SweeperSpec ==
    /\ Init /\ [][SweeperNext]_vars
    /\ WF_vars(Tick)
    /\ SF_vars(ScheduledCleanup(TRUE))
    /\ SF_vars(CleanupDelete(Sweeper, TRUE))

----------------------------------------------------------------------------
(* The contract's own predicates, stated on the store and the clock *)

\* A row is live: unconsumed and unexpired.
LiveRow(r) == ~r.used /\ now <= r.expires_at

\* Some row of token t is live.
HasLiveRow(t) == \E r \in rows : r.token = t /\ LiveRow(r)

\* The user a live row of token t belongs to.
OwnerOf(t) == (CHOOSE r \in rows : r.token = t /\ LiveRow(r)).user_id

\* The email resolves to no user.
NoSuchUser(e) == \A u \in Users : EmailOf(u) # e

Returned(p, m) == pc[p] = "done" /\ op[p] = m

\* Some step of request_password_reset taken by handler p.
RequestStep(p) ==
    \/ \E e \in Emails, t \in Tokens, dbOk \in BOOLEAN : RequestPasswordReset(p, e, t, dbOk)
    \/ \E dbOk \in BOOLEAN : StoreDelete(p, dbOk)
    \/ \E dbOk \in BOOLEAN : StoreInsert(p, dbOk)
    \/ \E sent \in BOOLEAN : SendResetEmail(p, sent)

----------------------------------------------------------------------------
\* C1: in every reachable state each user has at most one token row that is
\* unconsumed and unexpired.
C1_AtMostOneLiveTokenPerUser ==
    \A u \in Users : Cardinality({r \in rows : r.user_id = u /\ LiveRow(r)}) <= 1

\* C2: of the reset_password calls that present one token, at most one updates
\* the credential and returns success.
C2_OneTimeAuthorization ==
    \A p, q \in Procs :
        /\ p # q
        /\ Returned(p, "reset_password") /\ result[p] = Success(ResetDone)
        /\ Returned(q, "reset_password") /\ result[q] = Success(ResetDone)
        => tok[p] # tok[q]

\* C3: a lookup returns the token's user if and only if a row of the token
\* exists with used = false and now <= expires_at (and the store answered the
\* query); so the token is still valid at now = expires_at and at no later time.
\* The lookup is observed through both methods that make it.
C3_LookupValidIffLive ==
    [][ /\ \A p \in Procs, t \in Tokens, dbOk \in BOOLEAN :
              ValidateResetToken(p, t, dbOk)
              => result'[p] = IF HasLiveRow(t) /\ dbOk
                              THEN Valid(EmailOf(OwnerOf(t)))
                              ELSE Invalid
        /\ \A p \in Procs, t \in Tokens, w \in Passwords, dbOk \in BOOLEAN :
              ResetPassword(p, t, w, dbOk)
              => IF HasLiveRow(t) /\ dbOk
                 THEN \/ Len(w) < MinPasswordLength /\ result'[p] = Error(TooShort)
                      \/ Len(w) >= MinPasswordLength /\ user'[p] = OwnerOf(t)
                 ELSE result'[p] = Error(InvalidToken)
      ]_vars

\* C3 witness: a lookup has answered valid for a token whose expiry is this very hour.
C3_Witness ==
    \E p \in Procs :
        /\ Returned(p, "validate_reset_token")
        /\ result[p].valid
        /\ \E r \in rows : r.token = tok[p] /\ ~r.used /\ r.expires_at = now

\* C4: no step turns a row's used flag from true back to false, and a lookup of
\* a token whose row is used returns not-found whatever time is left.
C4_UsedIsTerminal ==
    [][ /\ \A r \in rows : r.used => \A r2 \in rows' : r2.token = r.token => r2.used
        /\ \A p \in Procs, t \in Tokens, dbOk \in BOOLEAN :
              (\E r \in rows : r.token = t /\ r.used)
              => /\ ValidateResetToken(p, t, dbOk) => result'[p] = Invalid
                 /\ \A w \in Passwords :
                       ResetPassword(p, t, w, dbOk) => result'[p] = Error(InvalidToken)
      ]_vars

\* C4 witness: a lookup has answered not-found for a used token before its expiry.
C4_Witness ==
    \E p \in Procs :
        /\ Returned(p, "validate_reset_token")
        /\ result[p] = Invalid
        /\ \E r \in rows : r.token = tok[p] /\ r.used /\ now < r.expires_at

\* C5: when the issue of token t2 for user u completes (its INSERT succeeds), no
\* other token issued for u before is live any more, so that a lookup of it
\* returns not-found.
C5_SecondIssueInvalidatesFirst ==
    [][ \A p \in Procs :
            StoreInsert(p, TRUE) /\ pc'[p] = "send_email"
            => \A r \in rows' :
                  r.user_id = user[p] /\ r.token # tok[p]
                  => r.used \/ now' > r.expires_at
      ]_vars

\* C6: after reset_password has returned success for a token, a reset_password
\* started with the same token (and an acceptable password) fails with the
\* invalid-or-expired error.
C6_ConsumedAfterSuccess ==
    [][ \A p, q \in Procs, w \in Passwords, dbOk \in BOOLEAN :
            /\ p # q
            /\ Len(w) >= MinPasswordLength
            /\ Returned(q, "reset_password") /\ result[q] = Success(ResetDone)
            /\ ResetPassword(p, tok[q], w, dbOk)
            => result'[p] = Error(InvalidToken)
      ]_vars

\* C7: reset_password with a new password shorter than 8 characters returns the
\* password-length error whatever the token is.
C7_ShortPasswordRejectedFirst ==
    \A p \in Procs :
        Returned(p, "reset_password") /\ Len(pw[p]) < MinPasswordLength
        => result[p] = Error(TooShort)

\* C8: reset_password and validate_reset_token answer a token that has no row, a
\* used token and an expired token with one and the same result, and change
\* nothing.
C8_InvalidTokensIndistinguishable ==
    [][ \A p \in Procs, t \in Tokens, dbOk \in BOOLEAN :
            ~HasLiveRow(t)
            => /\ ValidateResetToken(p, t, dbOk)
                  => result'[p] = Invalid /\ outbox'[p] = NoMail
               /\ \A w \in Passwords :
                     ResetPassword(p, t, w, dbOk)
                     => result'[p] = Error(InvalidToken) /\ outbox'[p] = NoMail
      ]_vars

\* C8 witness: two reset_password calls with the same password have got the same
\* error, one for an expired token and one for a token that has no row.
C8_Witness ==
    \E p, q \in Procs :
        /\ Returned(p, "reset_password") /\ Returned(q, "reset_password")
        /\ pw[p] = pw[q] /\ Len(pw[p]) >= MinPasswordLength
        /\ result[p] = Error(InvalidToken) /\ result[q] = result[p]
        /\ \E r \in rows : r.token = tok[p] /\ ~r.used /\ now > r.expires_at
        /\ \A r \in rows : r.token # tok[q]

\* C9: no step of a request_password_reset whose email resolves to no user
\* changes the token table or delivers a mail.
C9_UnknownEmailIssuesNothing ==
    [][ \A p \in Procs :
            op'[p] = "request_password_reset" /\ NoSuchUser(email'[p]) /\ RequestStep(p)
            => rows' = rows /\ outbox'[p] = NoMail
      ]_vars

\* C9 witness: a request for an unknown email has returned while the table holds a row.
C9_Witness ==
    \E p \in Procs :
        /\ Returned(p, "request_password_reset")
        /\ NoSuchUser(email[p])
        /\ result[p] = Success(GenericMessage)
        /\ rows # {}

\* C10 as claimed: a request_password_reset whose user lookup was answered
\* returns the generic success message, whether or not the email resolves to a user.
C10_AlwaysGenericSuccess ==
    \A p \in Procs :
        Returned(p, "request_password_reset") /\ result[p] # Error(InternalError)
        => result[p] = Success(GenericMessage)

\* C10 as amended: every successful response carries the one generic message,
\* in the user-found and in the user-not-found branch, and a request for an
\* unknown email whose lookup was answered is always successful; the failure
\* responses of a failed issue or notification come for an existing user only.
C10_GenericOnSuccessPath ==
    \A p \in Procs :
        Returned(p, "request_password_reset")
        => LET resp == RequestResetResponse(result[p]) IN
           /\ resp.code = 200 => resp.body = GenericMessage
           /\ NoSuchUser(email[p]) /\ result[p] # Error(InternalError) => resp.code = 200

\* C10 witness: two requests have returned the generic success, one for an
\* unknown email and one for a known one.
C10_Witness ==
    \E p, q \in Procs :
        /\ Returned(p, "request_password_reset") /\ NoSuchUser(email[p])
        /\ Returned(q, "request_password_reset") /\ ~NoSuchUser(email[q])
        /\ result[p] = Success(GenericMessage)
        /\ result[q] = result[p]

\* C11: when the credential update of reset_password fails, the call returns
\* failure, changes neither the token table nor the credential, and a
\* reset_password started afterwards with the same token passes validation as
\* long as the token's row is still live.
C11_FailedUpdateKeepsToken ==
    [][ /\ \A p \in Procs :
              UpdateUserPassword(p, FALSE)
              => /\ result'[p] = Error("Failed to update password")
                 /\ rows' = rows /\ password' = password
        /\ \A p, q \in Procs, w \in Passwords :
              /\ p # q
              /\ Returned(p, "reset_password")
              /\ result[p] = Error("Failed to update password")
              /\ HasLiveRow(tok[p])
              /\ Len(w) >= MinPasswordLength
              /\ ResetPassword(q, tok[p], w, TRUE)
              => pc'[q] = "update_password" /\ user'[q] = OwnerOf(tok[p])
      ]_vars

\* C11 witness: one reset_password has failed at the credential update, and
\* another with the same token has returned success and set the credential.
C11_Witness ==
    \E p, q \in Procs :
        /\ Returned(p, "reset_password")
        /\ result[p] = Error("Failed to update password")
        /\ Returned(q, "reset_password") /\ tok[q] = tok[p]
        /\ result[q] = Success(ResetDone)
        /\ \E r \in rows : /\ r.token = tok[q] /\ r.used
                            /\ password[r.user_id] = generate_password_hash(pw[q])

\* C12: when the mail with the reset link fails, request_password_reset returns
\* a failure (HTTP 500) and leaves the token table as it is: the issued row is
\* not deleted and its used flag stays false, so the token keeps validating.
C12_MailFailureKeepsToken ==
    [][ \A p \in Procs :
            SendResetEmail(p, FALSE)
            => /\ result'[p] = Error("Failed to send password reset email")
               /\ RequestResetResponse(result'[p]).code = 500
               /\ rows' = rows
               /\ \A t \in Tokens : _validate_reset_token(t, TRUE)' = _validate_reset_token(t, TRUE)
      ]_vars

\* C12 witness: a request has returned the mail failure, and a lookup of the
\* token it issued has answered valid for that user.
C12_Witness ==
    \E p, q \in Procs :
        /\ Returned(p, "request_password_reset")
        /\ result[p] = Error("Failed to send password reset email")
        /\ Returned(q, "validate_reset_token") /\ tok[q] = tok[p]
        /\ result[q] = Valid(email[p])
        /\ \E r \in rows : r.token = tok[p] /\ LiveRow(r) /\ r.expires_at > TokenExpiryHours

\* A statement of handler q on the token table that the database carried out.
StoreStep(q) ==
    \/ StoreDelete(q, TRUE)
    \/ StoreInsert(q, TRUE)
    \/ \E t \in Tokens, w \in Passwords : ResetPassword(q, t, w, TRUE)
    \/ \E t \in Tokens : ValidateResetToken(q, t, TRUE)
    \/ MarkTokenAsUsed(q, TRUE)
    \/ CleanupExpiredTokens(q, TRUE)
    \/ CleanupDelete(q, TRUE)

\* C13: the DELETE and the INSERT of _store_reset_token are one atomic unit:
\* while a handler stands between its DELETE and its INSERT, no other handler
\* carries out a statement on the token table.
C13_IssueIsAtomic ==
    [][ \A p, q \in Procs :
            p # q /\ pc[p] = "store_insert" => ~StoreStep(q)
      ]_vars

\* C14: cleanup_expired_tokens run with no other request in between deletes
\* exactly the rows that are used or whose expires_at lies before the clock
\* value the call read, keeps every unused row that has not expired, and returns
\* the number of rows it deleted; when one of its two statements raises it
\* returns 0 and that statement deletes nothing.
C14_PurgeExactlyTerminalRows ==
    [][ \A p \in Procs :
          /\ CleanupDelete(p, TRUE)
             => /\ rows' \subseteq rows
                /\ rows \ rows' = {r \in rows : r.used \/ r.expires_at < current_time[p]}
                /\ \A r \in rows : ~r.used /\ now <= r.expires_at => r \in rows'
                /\ result'[p] = Removed(Cardinality(rows \ rows'))
          /\ CleanupDelete(p, FALSE) \/ CleanupExpiredTokens(p, FALSE)
             => rows' = rows /\ result'[p] = Removed(0)
      ]_vars

\* C14 witness: a purge has returned a count of one or more and an unused,
\* unexpired row is still in the table.
C14_Witness ==
    \E p \in Procs :
        /\ Returned(p, "cleanup_expired_tokens")
        /\ result[p].removed >= 1
        /\ \E r \in rows : LiveRow(r)

\* C15: validate_reset_token changes neither the token table (rows and used
\* flags) nor any credential, for every token and every table, whether it
\* answers valid or not.
C15_ValidateNeverMutates ==
    [][ \A p \in Procs, t \in Tokens, dbOk \in BOOLEAN :
            ValidateResetToken(p, t, dbOk)
            => rows' = rows /\ password' = password /\ outbox'[p] = NoMail
      ]_vars

\* C15 witness: two lookups have returned, one valid and one not, and the valid
\* token's row is still unused.
C15_Witness ==
    \E p, q \in Procs :
        /\ Returned(p, "validate_reset_token") /\ result[p].valid
        /\ Returned(q, "validate_reset_token") /\ ~result[q].valid
        /\ \E r \in rows : r.token = tok[p] /\ LiveRow(r)

\* C16: _mark_token_as_used on a token whose row is already used returns
\* success and leaves the table exactly as it was, and applied twice it gives
\* the table it gives applied once.
C16_ConsumeIdempotent ==
    [][ /\ \A t \in Tokens :
              LET once == _mark_token_as_used(rows, t, TRUE) IN
              /\ _mark_token_as_used(once.rows, t, TRUE) = once
              /\ (\E r \in rows : r.token = t /\ r.used)
                 => once = [ok |-> TRUE, rows |-> rows]
        /\ \A p \in Procs :
              /\ MarkTokenAsUsed(p, TRUE)
              /\ \E r \in rows : r.token = tok[p] /\ r.used
              => rows' = rows
      ]_vars

\* C16 witness: two reset_password calls with one token have both gone through
\* the mark-used statement, and the token's row is used.
C16_Witness ==
    \E p, q \in Procs :
        /\ p # q /\ tok[p] = tok[q]
        /\ op[p] = "reset_password" /\ pc[p] = "send_confirmation"
        /\ op[q] = "reset_password"
        /\ pc[q] = "send_confirmation" \/ (pc[q] = "done" /\ result[q] = Success(ResetDone))
        /\ \E r \in rows : r.token = tok[p] /\ r.used

\* C17: no two rows of the token table carry the same token, whoever the
\* users are, and an INSERT whose token is already in the table stores nothing
\* and makes the request fail.
C17_TokensUnique ==
    [][ /\ \A r1, r2 \in rows' : r1.token = r2.token => r1 = r2
        /\ \A p \in Procs, dbOk \in BOOLEAN :
              /\ StoreInsert(p, dbOk)
              /\ \E r \in rows : r.token = tok[p]
              => /\ rows' = rows
                 /\ result'[p] = Error("Failed to process password reset request")
      ]_vars

\* C17 witness: a request has failed while its token is held by a row of
\* another user, issued during the run.
C17_Witness ==
    \E p \in Procs :
        /\ Returned(p, "request_password_reset")
        /\ result[p] = Error("Failed to process password reset request")
        /\ \E r \in rows : /\ r.token = tok[p]
                            /\ r.user_id # find_by_email(email[p])
                            /\ r.expires_at > TokenExpiryHours

\* C18: a request whose email is missing or empty, and a reset whose token or
\* new password is missing or empty, are answered by the route with a 400
\* validation error; no service method is entered, and the token table, the
\* credentials and the mail are as before.
C18_MalformedInputRejected ==
    [][ \A p \in Procs :
          /\ \A i \in {j \in RequestInputs : j[1] \in {"", " "}} :
                RequestPasswordResetRoute(p, i[1], i[2], i[3])
                => /\ result'[p] = Rejected(400, "Email is required")
                   /\ op'[p] = None /\ pc'[p] = "done"
                   /\ rows' = rows /\ password' = password /\ outbox'[p] = NoMail
          /\ \A i \in {j \in ResetInputs : j[1] \in {"", " "} \/ j[2] \in {"", None}} :
                ResetPasswordRoute(p, i[1], i[2], i[3])
                => /\ result'[p] = IF i[1] \in {"", " "}
                                   THEN Rejected(400, "Reset token is required")
                                   ELSE Rejected(400, "New password is required")
                   /\ op'[p] = None /\ pc'[p] = "done"
                   /\ rows' = rows /\ password' = password /\ outbox'[p] = NoMail
      ]_vars

\* C18 witness: a request with an empty email and a reset with an empty new
\* password have both been rejected while the table holds a live token.
C18_Witness ==
    \E p, q \in Procs :
        /\ pc[p] = "done" /\ result[p] = Rejected(400, "Email is required")
        /\ pc[q] = "done" /\ result[q] = Rejected(400, "New password is required")
        /\ \E r \in rows : LiveRow(r)

\* C19: the confirmation mail of reset_password is best-effort: the call
\* returns success whether the mail is delivered or not, and the step changes
\* neither a credential nor a row of the token table.
C19_ConfirmationBestEffort ==
    [][ \A p \in Procs, sent \in BOOLEAN :
            SendConfirmation(p, sent)
            => /\ result'[p] = Success(ResetDone)
               /\ rows' = rows /\ password' = password
      ]_vars

\* C19 witness: a reset_password has returned success with no confirmation
\* delivered; the credential is the new one and the token's row is used.
C19_Witness ==
    \E p \in Procs :
        /\ Returned(p, "reset_password") /\ result[p] = Success(ResetDone)
        /\ outbox[p] = NoMail
        /\ \E r \in rows : /\ r.token = tok[p] /\ r.used
                            /\ password[r.user_id] = generate_password_hash(pw[p])

\* C20: in every interleaving, no row that cleanup_expired_tokens deletes is
\* valid (unused and unexpired) at the moment of the DELETE.
C20_PurgeDeletesOnlyTerminal ==
    [][ \A p \in Procs, dbOk \in BOOLEAN :
            CleanupDelete(p, dbOk) => \A r \in rows \ rows' : ~LiveRow(r)
      ]_vars

\* C20 witness: a purge has deleted one row or more and returned, and a row that
\* another handler issued during the run is in the table, unused and unexpired.
C20_Witness ==
    \E p, q \in Procs :
        /\ Returned(p, "cleanup_expired_tokens")
        /\ result[p].removed >= 1
        /\ op[q] = "request_password_reset" /\ pc[q] \in {"send_email", "done"}
        /\ \E r \in rows : r.token = tok[q] /\ LiveRow(r) /\ r.expires_at > TokenExpiryHours

\* C21: with the clock advancing and the sweeper running, every row of the
\* token table is eventually deleted: whenever a token has a row, a later state
\* has no row of that token.
C21_EveryRowEventuallyDeleted ==
    \A t \in Tokens :
        (\E r \in rows : r.token = t) ~> (\A r \in rows : r.token # t)

\* C21 witness: a request has issued a token and returned, and after a sweep
\* that deleted one row or more the table is empty.
C21_Witness ==
    \E q \in Procs :
        /\ Returned(q, "request_password_reset") /\ result[q] = Success(GenericMessage)
        /\ tok[q] \in Tokens
        /\ Returned(Sweeper, "cleanup_expired_tokens") /\ result[Sweeper].removed >= 1
        /\ rows = {}

\* C22: an issue that fails at its INSERT leaves the table as it was before the
\* issue: the rows of the user that the issue's DELETE removed, the user's
\* previous token among them, are in the table again when the request returns.
C22_FailedIssueKeepsPreviousToken ==
    [][ \A p \in Procs, dbOk \in BOOLEAN :
            StoreInsert(p, dbOk) /\ pc'[p] = "done" => deleted[p] \subseteq rows'
      ]_vars

\* C23: the mail with the reset link is sent only by a request whose INSERT of
\* the token was carried out: a request comes to the mailer only through a
\* successful INSERT of its row, every mail that carries a token is delivered
\* by such a request and carries its token, and a request whose DELETE or
\* INSERT fails returns a failure (HTTP 500) without a mail.
C23_MailOnlyAfterPersisted ==
    [][ \A p \in Procs :
          /\ pc'[p] = "send_email" /\ pc[p] # "send_email"
             => /\ StoreInsert(p, TRUE)
                /\ Row(user'[p], tok'[p], exp'[p], FALSE) \in rows'
          /\ outbox'[p] # outbox[p] /\ outbox'[p].token \in Tokens
             => /\ pc[p] = "send_email"
                /\ outbox'[p] = Mail(email[p], tok[p])
          /\ pc[p] \in {"store_delete", "store_insert"} /\ pc'[p] = "done"
             => /\ result'[p] = Error("Failed to process password reset request")
                /\ RequestResetResponse(result'[p]).code = 500
                /\ outbox'[p] = NoMail
      ]_vars

\* C23 witness: one request has failed at its INSERT and returned without a
\* mail; another has delivered the mail with its token, whose row is in the table.
C23_Witness ==
    \E p, q \in Procs :
        /\ Returned(p, "request_password_reset")
        /\ result[p] = Error("Failed to process password reset request")
        /\ outbox[p] = NoMail
        /\ Returned(q, "request_password_reset") /\ result[q] = Success(GenericMessage)
        /\ outbox[q] = Mail(email[q], tok[q])
        /\ \E r \in rows : r.token = tok[q] /\ r.user_id = find_by_email(email[q])

\* The token handler p presents has no row any more, and its user holds a live
\* row of another token: a later issue for the user has completed.
Superseded(p) ==
    /\ \A r \in rows : r.token # tok[p]
    /\ \E r \in rows : r.user_id = user[p] /\ r.token # tok[p] /\ LiveRow(r)

\* C24: once a later issue for user u has completed, no reset_password that
\* presents an earlier token of u updates u's credential, even if it validated
\* the token before that issue.
C24_SupersededTokenNeverUpdates ==
    [][ \A p \in Procs :
            UpdateUserPassword(p, TRUE) => ~Superseded(p)
      ]_vars

\* C25: a request_password_reset for an existing user that runs alone and
\* succeeds computes expires_at as its clock reading plus one hour, and when it
\* returns the table holds exactly one row of the user: the generated token,
\* unused, with that expires_at.
C25_SuccessLeavesOneFreshRow ==
    [][ /\ \A i \in RequestInputs :
              /\ RequestPasswordResetRoute(Worker, i[1], i[2], i[3])
              /\ pc'[Worker] = "store_delete"
              => /\ exp'[Worker] = now + 1
                 /\ tok'[Worker] = i[2] /\ user'[Worker] = find_by_email(i[1])
        /\ SendResetEmail(Worker, TRUE)
           => /\ result'[Worker] = Success(GenericMessage)
              /\ {r \in rows' : r.user_id = user[Worker]}
                    = {Row(user[Worker], tok[Worker], exp[Worker], FALSE)}
      ]_vars

\* C25 witness: a request has succeeded at this hour, and the one row of its
\* user carries the request's token, unused, expiring one hour from now, beside
\* a row of the other user.
C25_Witness ==
    /\ Returned(Worker, "request_password_reset")
    /\ result[Worker] = Success(GenericMessage)
    /\ tok[Worker] \in Tokens
    /\ {r \in rows : r.user_id = find_by_email(email[Worker])}
          = {Row(find_by_email(email[Worker]), tok[Worker], now + 1, FALSE)}
    /\ \E r \in rows : r.user_id # find_by_email(email[Worker])

\* C26: in every interleaving the count cleanup_expired_tokens returns is the
\* number of rows its DELETE removes.
C26_CountIsRowsDeleted ==
    [][ \A p \in Procs, dbOk \in BOOLEAN :
            CleanupDelete(p, dbOk) => result'[p] = Removed(Cardinality(rows \ rows'))
      ]_vars

\* C27: a credential changes only in the UPDATE users step of a reset_password
\* call; the step sets the credential of the call's user to the hash of the
\* call's new password and leaves every other credential as it is; and a call
\* comes to that step only through a validation that found a live row of the
\* presented token, whose user is the call's user.
C27_CredentialOnlyByValidatedToken ==
    [][ /\ password' # password
           => \E p \in Procs :
                 /\ op[p] = "reset_password" /\ pc[p] = "update_password"
                 /\ pc'[p] = "mark_used"
                 /\ password' = [password EXCEPT
                                   ![user[p]] = generate_password_hash(pw[p])]
        /\ \A p \in Procs :
              pc'[p] = "update_password" /\ pc[p] # "update_password"
              => /\ op'[p] = "reset_password"
                 /\ HasLiveRow(tok'[p])
                 /\ user'[p] = OwnerOf(tok'[p])
                 /\ pw'[p] \in Passwords
      ]_vars

\* C27 witness: a reset_password has succeeded; its token's row belongs to the
\* user whose credential is the hash of the new password, and the other user's
\* credential is the initial one.
C27_Witness ==
    \E p \in Procs, r \in rows :
        /\ Returned(p, "reset_password") /\ result[p] = Success(ResetDone)
        /\ r.token = tok[p]
        /\ password[r.user_id] = generate_password_hash(pw[p])
        /\ \A u \in Users \ {r.user_id} :
              password[u] = generate_password_hash("initialpassword")

\* C28: a reset_password that fails because its token has no row, a used row or
\* an expired row changes no row, no used flag and no credential, sends no
\* mail, and is answered with HTTP 400.
C28_FailedResetChangesNothing ==
    [][ \A p \in Procs, t \in Tokens, w \in Passwords, dbOk \in BOOLEAN :
            ResetPassword(p, t, w, dbOk) /\ ~HasLiveRow(t)
            => /\ result'[p] = Error(InvalidToken)
               /\ ResetPasswordResponse(result'[p]).code = 400
               /\ rows' = rows /\ password' = password
               /\ outbox'[p] = NoMail /\ pc'[p] = "done"
      ]_vars

\* C28 witness: two reset_password calls have failed, one with an expired token
\* and one with a token that has no row; the expired row is still in the table,
\* no credential has changed and no mail has gone out.
C28_Witness ==
    \E p, q \in Procs :
        /\ Returned(p, "reset_password") /\ result[p] = Error(InvalidToken)
        /\ Returned(q, "reset_password") /\ result[q] = Error(InvalidToken)
        /\ \E r \in rows : r.token = tok[p] /\ ~r.used /\ now > r.expires_at
        /\ \A r \in rows : r.token # tok[q]
        /\ password = [u \in Users |-> generate_password_hash("initialpassword")]
        /\ outbox = [h \in Procs |-> NoMail]

====
